---- MODULE Spec2Model ----
(***************************************************************************)
(* The stream ingestion operations of modules/utils.js: makeChecksum,      *)
(* bufferStream and streamToDisk.  Each invocation attaches data/end/error *)
(* listeners to a push-based source and settles one deferred.              *)
(*                                                                         *)
(* Every invocation lives in a slot; all per-invocation state is a         *)
(* function of the slot, because each call of an exported function creates *)
(* its own closure (value, chunks, length, hash, info, stream).            *)
(***************************************************************************)
EXTENDS Integers, Sequences, FiniteSets, TLC

\* ------------------------------------------------------------- bounds
\* Data events one source delivers before its terminal event.
MaxChunks == 3
\* Largest configured maxLength of bufferStream.
MaxLimit == 3

\* ------------------------------------------------------------- inputs
Slots == {1, 2}
\* The chunks a source may deliver (byte sequences of length 0, 1 and 2).
ChunkValues == {<<>>, <<0>>, <<1>>, <<0, 1>>}
\* The error values a source may emit.
SourceErrors == {"EIO", "ECONNRESET"}
\* maxLength as passed by the caller: absent (undefined) or a number.
MaxLengths ==
  {[given |-> FALSE, value |-> 0]} \cup {[given |-> TRUE, value |-> n] : n \in 0..MaxLimit}
\* algorithm as passed by the caller; "" stands for an absent (falsy) argument.
Algorithms == {"", "md5", "sha1", "crc-bogus"}
\* The hash functions crypto.createHash accepts.
SupportedAlgorithms == {"md5", "sha1"}
\* The parts handed to streamToDisk; "" stands for an absent field.
Parts == {[filename |-> "photo.png", type |-> "image/png"], [filename |-> "", type |-> ""]}
\* filePrefix as passed by the caller; "" stands for an absent (falsy) argument.
FilePrefixes == {"", "upload-"}
\* The values Math.random() may render to.
Randoms == {"r1", "r2"}

VARIABLES
  slots,      \* the slots in which an operation may be invoked
  op,         \* which exported function was invoked in the slot
  threw,      \* the invocation threw synchronously instead of returning a promise
  source,     \* the source given to / opened by the invocation
  log,        \* the events the source has emitted so far, in order
  value,      \* the deferred created by when.defer()
  chunks,     \* bufferStream: var chunks
  length,     \* bufferStream: var length
  maxLength,  \* bufferStream: parameter maxLength
  algorithm,  \* makeChecksum: parameter algorithm, after defaulting
  hash,       \* makeChecksum: var hash
  info,       \* streamToDisk: var info
  stream,     \* streamToDisk: var stream (the fs write stream)
  prefix,     \* makeTemporaryPath: parameter prefix, after defaulting
  random,     \* makeTemporaryPath: var random
  files,      \* the temporary directory: path -> file
  crashed     \* the process died of an unhandled 'error' event

vars ==
  <<slots, op, threw, source, log, value, chunks, length, maxLength, algorithm, hash, info,
    stream, prefix, random, files, crashed>>

\* ------------------------------------------------------------- values
\* A settled or pending deferred's result: one record shape for every kind.
\*   kind "buffer": bytes; "digest": text; "info": the invocation's info object
\*   (by reference); "error": text, the source's error value;
\*   "MaxLengthExceededError": num, the constructor's argument.
NoResult == [kind |-> "none", bytes |-> <<>>, text |-> "", num |-> 0]
BufferResult(b) == [kind |-> "buffer", bytes |-> b, text |-> "", num |-> 0]
DigestResult(d) == [kind |-> "digest", bytes |-> <<>>, text |-> d, num |-> 0]
InfoResult == [kind |-> "info", bytes |-> <<>>, text |-> "", num |-> 0]
\* A rejection that replaces the source's error by a generic one.
ErrorResultGeneric(e) == [kind |-> "error", bytes |-> <<>>, text |-> "SourceReadError", num |-> 0]
ErrorResult(e) == [kind |-> "error", bytes |-> <<>>, text |-> e, num |-> 0]
MaxLengthExceededError(m) ==
  [kind |-> "MaxLengthExceededError", bytes |-> <<>>, text |-> "", num |-> m]

NoDeferred == [state |-> "none", result |-> NoResult]
\* when.defer(): a pending deferred.
Defer == [state |-> "pending", result |-> NoResult]
\* A deferred that lets a later rejection replace the outcome.
RejectAgain(d, v) == [state |-> "rejected", result |-> v]
\* value.resolve(v) / value.reject(v): only a pending deferred is settled.
Resolve(d, v) == IF d.state = "pending" THEN [state |-> "resolved", result |-> v] ELSE d
Reject(d, v) == IF d.state = "pending" THEN [state |-> "rejected", result |-> v] ELSE d

\* A concatenation that puts every later buffer in front.
RECURSIVE ConcatReversed(_)
ConcatReversed(list) ==
  IF list = <<>> THEN <<>> ELSE ConcatReversed(Tail(list)) \o Head(list)
\* Buffer.concat(list): the bytes of the list's buffers, in list order.
RECURSIVE Concat(_)
Concat(list) == IF list = <<>> THEN <<>> ELSE Head(list) \o Concat(Tail(list))

\* A test that takes every given maxLength, 0 included, for a limit.
TruthyGiven(m) == m.given
\* JavaScript truthiness of maxLength: undefined and 0 are falsy.
Truthy(m) == m.given /\ m.value # 0

\* ------------------------------------------------------------- events
DataEvent(c) == [type |-> "data", chunk |-> c, error |-> ""]
EndEvent == [type |-> "end", chunk |-> <<>>, error |-> ""]
ErrorEvent(e) == [type |-> "error", chunk |-> <<>>, error |-> e]
CloseEvent == [type |-> "close", chunk |-> <<>>, error |-> ""]

\* The chunks of the data events of an event sequence, in order.
RECURSIVE DataOf(_)
DataOf(events) ==
  IF events = <<>> THEN <<>>
  ELSE IF Head(events).type = "data" THEN <<Head(events).chunk>> \o DataOf(Tail(events))
  ELSE DataOf(Tail(events))

\* The source of slot i emits ev: zero or more data events, then one terminal event.
Emit(i, ev) ==
  /\ ~crashed
  /\ source[i] = "open"
  /\ ev.type = "data" => Len(DataOf(log[i])) < MaxChunks
  /\ log' = [log EXCEPT ![i] = Append(@, ev)]
  /\ source' = [source EXCEPT ![i] =
       CASE ev.type = "data" -> "open"
         [] ev.type = "end" -> "ended"
         [] ev.type = "error" -> "errored"
         [] OTHER -> "closed"]

\* ------------------------------------------------------------- bufferStream
bufferStream(i, m) ==
  /\ ~crashed
  /\ i \in slots
  /\ op[i] = "none"
  /\ op' = [op EXCEPT ![i] = "bufferStream"]
  /\ value' = [value EXCEPT ![i] = Defer]
  /\ chunks' = [chunks EXCEPT ![i] = <<>>]
  /\ length' = [length EXCEPT ![i] = 0]
  /\ maxLength' = [maxLength EXCEPT ![i] = m]
  /\ source' = [source EXCEPT ![i] = "open"]
  /\ UNCHANGED <<slots, algorithm, prefix, random, threw, log, hash, info, stream, files, crashed>>

\* The limit test of the data listener: maxLength && length > maxLength.
ExceedsAtLimit(len, m) == Truthy(m) /\ len >= m.value
Exceeds(len, m) == Truthy(m) /\ len > m.value

\* The data listener with the rejected chunk's length taken back.
BufferDataUncounted(i, chunk) ==
  /\ op[i] = "bufferStream"
  /\ Emit(i, DataEvent(chunk))
  /\ IF Exceeds(length[i] + Len(chunk), maxLength[i])
     THEN /\ value' = [value EXCEPT ![i] =
                Reject(@, MaxLengthExceededError(maxLength[i].value))]
          /\ UNCHANGED <<chunks, length>>
     ELSE /\ chunks' = [chunks EXCEPT ![i] = Append(@, chunk)]
          /\ length' = [length EXCEPT ![i] = @ + Len(chunk)]
          /\ UNCHANGED value
  /\ UNCHANGED <<slots, algorithm, prefix, random, op, threw, maxLength, hash, info, stream, files, crashed>>

\* The data listener with one running length shared by all invocations.
BufferDataSharedLength(i, chunk) ==
  /\ op[i] = "bufferStream"
  /\ Emit(i, DataEvent(chunk))
  /\ length' = [j \in Slots |-> length[j] + Len(chunk)]
  /\ IF Exceeds(length'[i], maxLength[i])
     THEN /\ value' = [value EXCEPT ![i] =
                Reject(@, MaxLengthExceededError(maxLength[i].value))]
          /\ UNCHANGED chunks
     ELSE /\ chunks' = [chunks EXCEPT ![i] = Append(@, chunk)]
          /\ UNCHANGED value
  /\ UNCHANGED <<slots, algorithm, prefix, random, op, threw, maxLength, hash, info, stream,
                 files, crashed>>

\* stream.on('data', ...)
BufferData(i, chunk) ==
  /\ op[i] = "bufferStream"
  /\ Emit(i, DataEvent(chunk))
  /\ length' = [length EXCEPT ![i] = @ + Len(chunk)]
  /\ IF Exceeds(length'[i], maxLength[i])
     THEN /\ value' = [value EXCEPT ![i] =
                Reject(@, MaxLengthExceededError(maxLength[i].value))]
          /\ UNCHANGED chunks
     ELSE /\ chunks' = [chunks EXCEPT ![i] = Append(@, chunk)]
          /\ UNCHANGED value
  /\ UNCHANGED <<slots, algorithm, prefix, random, op, threw, maxLength, hash, info, stream, files, crashed>>

\* stream.on('end', ...)
BufferEnd(i) ==
  /\ op[i] = "bufferStream"
  /\ Emit(i, EndEvent)
  /\ value' = [value EXCEPT ![i] = Resolve(@, BufferResult(Concat(chunks[i])))]
  /\ UNCHANGED <<slots, algorithm, prefix, random, op, threw, chunks, length, maxLength, hash, info, stream, files,
                 crashed>>

\* stream.on('error', ...)
BufferError(i, error) ==
  /\ op[i] = "bufferStream"
  /\ Emit(i, ErrorEvent(error))
  /\ value' = [value EXCEPT ![i] = Reject(@, ErrorResult(error))]
  /\ UNCHANGED <<slots, algorithm, prefix, random, op, threw, chunks, length, maxLength, hash, info, stream, files,
                 crashed>>

\* Every source: an external close/abort emits 'close' alone; none of the three
\* operations registers a 'close' listener, so no handler runs.
SourceClose(i) ==
  /\ op[i] \in {"makeChecksum", "bufferStream", "streamToDisk"}
  /\ ~threw[i]
  /\ Emit(i, CloseEvent)
  /\ UNCHANGED <<slots, algorithm, prefix, random, op, threw, value, chunks, length, maxLength, hash, info, stream,
                 files, crashed>>

\* ------------------------------------------------------------- makeChecksum
\* crypto's hash objects, abstracted to an 8-bit running state that is folded
\* byte by byte; the two supported algorithms differ in their initial state.
NoHash == [algorithm |-> "", state |-> 0]
createHash(name) ==
  [algorithm |-> name, state |-> IF name = "md5" THEN 7 ELSE 11]

RECURSIVE FoldBytes(_, _)
FoldBytes(h, bytes) ==
  IF bytes = <<>> THEN h ELSE FoldBytes((h * 31 + Head(bytes) + 1) % 256, Tail(bytes))

\* hash.update(chunk)
update(h, chunk) == [h EXCEPT !.state = FoldBytes(@, chunk)]

HexDigits == <<"0", "1", "2", "3", "4", "5", "6", "7", "8", "9", "a", "b", "c", "d", "e", "f">>
\* hash.digest('hex'): the state as two lowercase hexadecimal digits.
digest(h) == HexDigits[(h.state \div 16) + 1] \o HexDigits[(h.state % 16) + 1]

\* makeChecksum with the read stream opened before the hash is created.
makeChecksumStreamFirst(i, name) ==
  LET alg == IF name = "" THEN "md5" ELSE name IN
  /\ ~crashed
  /\ i \in slots
  /\ op[i] = "none"
  /\ op' = [op EXCEPT ![i] = "makeChecksum"]
  /\ algorithm' = [algorithm EXCEPT ![i] = alg]
  /\ source' = [source EXCEPT ![i] = "open"]
  /\ IF alg \in SupportedAlgorithms
     THEN /\ value' = [value EXCEPT ![i] = Defer]
          /\ hash' = [hash EXCEPT ![i] = createHash(alg)]
          /\ UNCHANGED threw
     ELSE /\ threw' = [threw EXCEPT ![i] = TRUE]
          /\ UNCHANGED <<value, hash>>
  /\ UNCHANGED <<slots, prefix, random, log, chunks, length, maxLength, info, stream, files,
                 crashed>>

makeChecksum(i, name) ==
  LET alg == IF name = "" THEN "md5" ELSE name IN
  /\ ~crashed
  /\ i \in slots
  /\ op[i] = "none"
  /\ op' = [op EXCEPT ![i] = "makeChecksum"]
  /\ algorithm' = [algorithm EXCEPT ![i] = alg]
  /\ IF alg \in SupportedAlgorithms
     THEN /\ value' = [value EXCEPT ![i] = Defer]
          /\ hash' = [hash EXCEPT ![i] = createHash(alg)]
          /\ source' = [source EXCEPT ![i] = "open"]
          /\ UNCHANGED threw
     ELSE \* crypto.createHash throws after when.defer(); nothing is returned
          /\ threw' = [threw EXCEPT ![i] = TRUE]
          /\ UNCHANGED <<value, hash, source>>
  /\ UNCHANGED <<slots, prefix, random, log, chunks, length, maxLength, info, stream, files,
                 crashed>>

\* A data listener that starts a new hash for every chunk.
ChecksumDataRestart(i, chunk) ==
  /\ op[i] = "makeChecksum"
  /\ Emit(i, DataEvent(chunk))
  /\ hash' = [hash EXCEPT ![i] = update(createHash(algorithm[i]), chunk)]
  /\ UNCHANGED <<slots, algorithm, prefix, random, op, threw, value, chunks, length,
                 maxLength, info, stream, files, crashed>>

\* stream.on('data', ...)
ChecksumData(i, chunk) ==
  /\ op[i] = "makeChecksum"
  /\ Emit(i, DataEvent(chunk))
  /\ hash' = [hash EXCEPT ![i] = update(@, chunk)]
  /\ UNCHANGED <<slots, algorithm, prefix, random, op, threw, value, chunks, length, maxLength, info, stream, files,
                 crashed>>

\* stream.on('end', ...)
ChecksumEnd(i) ==
  /\ op[i] = "makeChecksum"
  /\ Emit(i, EndEvent)
  /\ value' = [value EXCEPT ![i] = Resolve(@, DigestResult(digest(hash[i])))]
  /\ UNCHANGED <<slots, algorithm, prefix, random, op, threw, chunks, length, maxLength, hash, info, stream, files,
                 crashed>>

\* stream.on('error', ...)
ChecksumError(i, error) ==
  /\ op[i] = "makeChecksum"
  /\ Emit(i, ErrorEvent(error))
  /\ value' = [value EXCEPT ![i] = Reject(@, ErrorResult(error))]
  /\ UNCHANGED <<slots, algorithm, prefix, random, op, threw, chunks, length, maxLength, hash, info, stream, files,
                 crashed>>

\* ------------------------------------------------------------- streamToDisk
\* os.tmpDir(), the date stamp and process.pid: the same for every invocation
\* of one process on one day.
TmpDir == "/tmp"
DateStamp == "113103"
Pid == "4242"

\* A temporary path without the random component.
makeTemporaryPathNoRandom(pfx, rnd) ==
  TmpDir \o "/" \o (IF pfx = "" THEN "" ELSE pfx) \o DateStamp \o "-" \o Pid \o "-"
\* makeTemporaryPath(prefix), with the value Math.random() rendered to.
makeTemporaryPath(pfx, rnd) ==
  LET name == (IF pfx = "" THEN "" ELSE pfx) \o DateStamp \o "-" \o Pid \o "-" \o rnd
  IN TmpDir \o "/" \o name

Paths == {makeTemporaryPath(p, r) : p \in FilePrefixes, r \in Randoms}

NoFile == [exists |-> FALSE, bytes |-> <<>>]
NoInfo == [path |-> "", name |-> "", type |-> "", size |-> 0]
NoStream == [state |-> "none", queue |-> <<>>, ending |-> FALSE, finished |-> FALSE]
\* fs.createWriteStream(path): the stream exists at once, the file is opened later.
createWriteStream == [state |-> "opening", queue |-> <<>>, ending |-> FALSE, finished |-> FALSE]

streamToDisk(i, part, filePrefix, rnd) ==
  /\ ~crashed
  /\ i \in slots
  /\ op[i] = "none"
  /\ op' = [op EXCEPT ![i] = "streamToDisk"]
  /\ prefix' = [prefix EXCEPT ![i] = filePrefix]
  /\ random' = [random EXCEPT ![i] = rnd]
  /\ info' = [info EXCEPT ![i] =
       [path |-> makeTemporaryPath(filePrefix, rnd), name |-> part.filename,
        type |-> part.type, size |-> 0]]
  /\ stream' = [stream EXCEPT ![i] = createWriteStream]
  /\ value' = [value EXCEPT ![i] = Defer]
  /\ source' = [source EXCEPT ![i] = "open"]
  /\ UNCHANGED <<slots, algorithm, threw, log, chunks, length, maxLength, hash, files, crashed>>

\* A write that replaces the writes still queued.
writeDropping(s, chunk) == [s EXCEPT !.queue = <<chunk>>]
\* stream.write(chunk, callback): the chunk is queued behind the writes not yet
\* performed; the call does not wait.
write(s, chunk) == [s EXCEPT !.queue = Append(@, chunk)]

\* part.on('data', ...)
PersistData(i, chunk) ==
  /\ op[i] = "streamToDisk"
  /\ Emit(i, DataEvent(chunk))
  /\ info' = [info EXCEPT ![i].size = @ + Len(chunk)]
  /\ stream' = [stream EXCEPT ![i] = write(@, chunk)]
  /\ UNCHANGED <<slots, algorithm, prefix, random, op, threw, value, chunks, length, maxLength, hash, files, crashed>>

\* An end listener that resolves without waiting for stream.end's callback.
PersistEndEager(i) ==
  /\ op[i] = "streamToDisk"
  /\ Emit(i, EndEvent)
  /\ stream' = [stream EXCEPT ![i].ending = TRUE]
  /\ value' = [value EXCEPT ![i] = Resolve(@, InfoResult)]
  /\ UNCHANGED <<slots, algorithm, prefix, random, op, threw, chunks, length, maxLength, hash, info, files, crashed>>

\* part.on('end', ...): stream.end(callback) only marks the stream as ending.
PersistEnd(i) ==
  /\ op[i] = "streamToDisk"
  /\ Emit(i, EndEvent)
  /\ stream' = [stream EXCEPT ![i].ending = TRUE]
  /\ UNCHANGED <<slots, algorithm, prefix, random, op, threw, value, chunks, length, maxLength, hash, info, files,
                 crashed>>

\* An error listener that also removes the temporary file.
PersistErrorCleanup(i, error) ==
  /\ op[i] = "streamToDisk"
  /\ Emit(i, ErrorEvent(error))
  /\ value' = [value EXCEPT ![i] = Reject(@, ErrorResult(error))]
  /\ files' = [files EXCEPT ![info[i].path] = NoFile]
  /\ UNCHANGED <<slots, algorithm, prefix, random, op, threw, chunks, length, maxLength,
                 hash, info, stream, crashed>>

\* An error listener that also ends the write stream.
PersistErrorEnding(i, error) ==
  /\ op[i] = "streamToDisk"
  /\ Emit(i, ErrorEvent(error))
  /\ value' = [value EXCEPT ![i] = Reject(@, ErrorResult(error))]
  /\ stream' = [stream EXCEPT ![i].ending = TRUE]
  /\ UNCHANGED <<slots, algorithm, prefix, random, op, threw, chunks, length, maxLength,
                 hash, info, files, crashed>>

\* part.on('error', ...)
PersistError(i, error) ==
  /\ op[i] = "streamToDisk"
  /\ Emit(i, ErrorEvent(error))
  /\ value' = [value EXCEPT ![i] = Reject(@, ErrorResult(error))]
  /\ UNCHANGED <<slots, algorithm, prefix, random, op, threw, chunks, length, maxLength, hash, info, stream, files,
                 crashed>>

\* The write stream opens its file (flags 'w': created, or truncated).
StreamOpen(i) ==
  /\ ~crashed
  /\ stream[i].state = "opening"
  /\ stream' = [stream EXCEPT ![i].state = "open"]
  /\ files' = [files EXCEPT ![info[i].path] = [exists |-> TRUE, bytes |-> <<>>]]
  /\ UNCHANGED <<slots, algorithm, prefix, random, op, threw, source, log, value, chunks, length, maxLength, hash,
                 info, crashed>>

\* The write stream emits 'error'.  streamToDisk registers no 'error' listener on
\* it, so the event is thrown as an uncaught exception and the process exits.
StreamFail(i) ==
  /\ stream' = [stream EXCEPT ![i].state = "errored"]
  /\ crashed' = TRUE
  /\ UNCHANGED <<slots, algorithm, prefix, random, op, threw, source, log, value, chunks, length, maxLength, hash,
                 info, files>>

\* Opening the file fails.
StreamOpenFail(i) ==
  /\ ~crashed
  /\ stream[i].state = "opening"
  /\ StreamFail(i)

\* The oldest queued write is performed; its callback does nothing.
StreamWrite(i) ==
  /\ ~crashed
  /\ stream[i].state = "open"
  /\ stream[i].queue # <<>>
  /\ files' = [files EXCEPT ![info[i].path].bytes = @ \o Head(stream[i].queue)]
  /\ stream' = [stream EXCEPT ![i].queue = Tail(@)]
  /\ UNCHANGED <<slots, algorithm, prefix, random, op, threw, source, log, value, chunks, length, maxLength, hash,
                 info, crashed>>

\* The oldest queued write fails.
StreamWriteFail(i) ==
  /\ ~crashed
  /\ stream[i].state = "open"
  /\ stream[i].queue # <<>>
  /\ StreamFail(i)

\* The ended stream has flushed every write: the callback given to stream.end
\* runs.  Node 0.8 runs it once the file descriptor is closed (fd = "closed"),
\* later versions on 'finish', when the close is still to come (fd = "closing").
StreamFinish(i, fd) ==
  /\ ~crashed
  /\ stream[i].state = "open"
  /\ stream[i].ending
  /\ stream[i].queue = <<>>
  /\ ~stream[i].finished
  /\ stream' = [stream EXCEPT ![i].finished = TRUE, ![i].state = fd]
  /\ value' = [value EXCEPT ![i] = Resolve(@, InfoResult)]
  /\ UNCHANGED <<slots, algorithm, prefix, random, op, threw, source, log, chunks, length, maxLength, hash, info,
                 files, crashed>>

\* The file descriptor is closed.
StreamClose(i) ==
  /\ ~crashed
  /\ stream[i].state = "closing"
  /\ stream' = [stream EXCEPT ![i].state = "closed"]
  /\ UNCHANGED <<slots, algorithm, prefix, random, op, threw, source, log, value, chunks, length, maxLength, hash,
                 info, files, crashed>>

\* Closing the file descriptor fails.
StreamCloseFail(i) ==
  /\ ~crashed
  /\ stream[i].state = "closing"
  /\ StreamFail(i)

\* ------------------------------------------------------------- specification
InitWith(S) ==
  /\ slots = S
  /\ op = [i \in Slots |-> "none"]
  /\ threw = [i \in Slots |-> FALSE]
  /\ source = [i \in Slots |-> "none"]
  /\ log = [i \in Slots |-> <<>>]
  /\ value = [i \in Slots |-> NoDeferred]
  /\ chunks = [i \in Slots |-> <<>>]
  /\ length = [i \in Slots |-> 0]
  /\ maxLength = [i \in Slots |-> [given |-> FALSE, value |-> 0]]
  /\ algorithm = [i \in Slots |-> ""]
  /\ hash = [i \in Slots |-> NoHash]
  /\ prefix = [i \in Slots |-> ""]
  /\ random = [i \in Slots |-> ""]
  /\ info = [i \in Slots |-> NoInfo]
  /\ stream = [i \in Slots |-> NoStream]
  /\ files = [p \in Paths |-> NoFile]
  /\ crashed = FALSE

\* One invocation, of any of the three operations.
Init == InitWith({1})

Next ==
  \E i \in Slots :
    \/ \E m \in MaxLengths : bufferStream(i, m)
    \/ \E c \in ChunkValues : BufferData(i, c)
    \/ BufferEnd(i)
    \/ \E e \in SourceErrors : BufferError(i, e)
    \/ \E a \in Algorithms : makeChecksum(i, a)
    \/ \E c \in ChunkValues : ChecksumData(i, c)
    \/ ChecksumEnd(i)
    \/ \E e \in SourceErrors : ChecksumError(i, e)
    \/ \E part \in Parts, p \in FilePrefixes, r \in Randoms : streamToDisk(i, part, p, r)
    \/ \E c \in ChunkValues : PersistData(i, c)
    \/ PersistEnd(i)
    \/ \E e \in SourceErrors : PersistError(i, e)
    \/ SourceClose(i)
    \/ StreamOpen(i)
    \/ StreamOpenFail(i)
    \/ StreamWrite(i)
    \/ StreamWriteFail(i)
    \/ \E fd \in {"closing", "closed"} : StreamFinish(i, fd)
    \/ StreamClose(i)
    \/ StreamCloseFail(i)

Spec == Init /\ [][Next]_vars

\* ------------------------------------------------------------- concurrent parts
\* Two parts are persisted at the same time, as for two files of one upload:
\* each part delivers at most PathChunks one-byte chunks and nothing fails.
PathChunks == 1

InitPersist == InitWith(Slots)

NextPersist ==
  \E i \in Slots :
    \/ \E part \in Parts, p \in FilePrefixes, r \in Randoms : streamToDisk(i, part, p, r)
    \/ \E c \in {<<0>>, <<1>>} : Len(DataOf(log[i])) < PathChunks /\ PersistData(i, c)
    \/ PersistEnd(i)
    \/ StreamOpen(i)
    \/ StreamWrite(i)
    \/ \E fd \in {"closing", "closed"} : StreamFinish(i, fd)
    \/ StreamClose(i)

SpecPersist == InitPersist /\ [][NextPersist]_vars

\* ------------------------------------------------------------- concurrent sources
\* Two invocations of bufferStream or makeChecksum run over different sources
\* whose events interleave in any order; each source delivers at most
\* ConcChunks chunks.
ConcChunks == 2

InitConcurrent == InitWith(Slots)

NextConcurrent ==
  \E i \in Slots :
    \/ \E m \in {x \in MaxLengths : x.value <= 2} : bufferStream(i, m)
    \/ \E c \in {<<1>>, <<0, 1>>} : Len(DataOf(log[i])) < ConcChunks /\ BufferData(i, c)
    \/ BufferEnd(i)
    \/ BufferError(i, "EIO")
    \/ \E a \in SupportedAlgorithms : makeChecksum(i, a)
    \/ \E c \in {<<1>>, <<0, 1>>} : Len(DataOf(log[i])) < ConcChunks /\ ChecksumData(i, c)
    \/ ChecksumEnd(i)
    \/ ChecksumError(i, "EIO")

SpecConcurrent == InitConcurrent /\ [][NextConcurrent]_vars

\* ------------------------------------------------------------- properties
\* What an observer of the source and of the promise can say, from the event
\* log alone.

\* The total length of a list of chunks.
RECURSIVE TotalLen(_)
TotalLen(list) == IF list = <<>> THEN 0 ELSE Len(Head(list)) + TotalLen(Tail(list))

\* The chunks the source has delivered so far.
Delivered(i) == DataOf(log[i])

\* The bytes of a list of chunks, first chunk first.
RECURSIVE Joined(_)
Joined(list) ==
  IF list = <<>> THEN <<>>
  ELSE Joined(SubSeq(list, 1, Len(list) - 1)) \o list[Len(list)]

\* Event k of the sequence is a data event after which the running total of the
\* chunk lengths is greater than a configured, non-zero maximum.
BreachAt(events, k, m) ==
  /\ events[k].type = "data"
  /\ m.given
  /\ m.value > 0
  /\ TotalLen(DataOf(SubSeq(events, 1, k))) > m.value

Breached(events, m) == \E k \in 1..Len(events) : BreachAt(events, k, m)

\* Event k decides the outcome of bufferStream: an error, an end or a breach.
DecisiveAt(events, k, m) ==
  events[k].type \in {"end", "error"} \/ BreachAt(events, k, m)

\* The outcome first-event-wins gives bufferStream on an event sequence.
FirstEventOutcome(events, m) ==
  IF \A k \in 1..Len(events) : ~DecisiveAt(events, k, m)
  THEN [state |-> "pending", kind |-> "none", text |-> "", num |-> 0]
  ELSE LET k == CHOOSE j \in 1..Len(events) :
                  /\ DecisiveAt(events, j, m)
                  /\ \A h \in 1..(j - 1) : ~DecisiveAt(events, h, m)
       IN CASE events[k].type = "error" ->
                 [state |-> "rejected", kind |-> "error", text |-> events[k].error, num |-> 0]
            [] events[k].type = "end" ->
                 [state |-> "resolved", kind |-> "buffer", text |-> "", num |-> 0]
            [] OTHER ->
                 [state |-> "rejected", kind |-> "MaxLengthExceededError", text |-> "",
                  num |-> m.value]

\* The outcome of a deferred, without the bytes of a buffer.
Outcome(d) ==
  [state |-> d.state, kind |-> d.result.kind, text |-> d.result.text, num |-> d.result.num]

\* C1: bufferStream is first-event-wins: the promise's outcome is the one fixed
\* by the first of {source error, limit breach, normal end} in the source's
\* event sequence, whatever events follow it; a breach followed by an error or
\* an end stays MaxLengthExceeded.
C1_FirstEventWins ==
  \A i \in Slots :
    op[i] = "bufferStream" => Outcome(value[i]) = FirstEventOutcome(log[i], maxLength[i])

\* A breaching data event has been followed by an error event.
C1_Witness ==
  \E i \in Slots :
    /\ op[i] = "bufferStream"
    /\ Len(log[i]) >= 2
    /\ log[i][Len(log[i])].type = "error"
    /\ BreachAt(log[i], Len(log[i]) - 1, maxLength[i])
    /\ value[i].result.kind = "MaxLengthExceededError"

\* C2: with a maximum M > 0, as soon as the running total of the delivered
\* chunk lengths is greater than M the promise is rejected with
\* MaxLengthExceededError(M) and never yields a buffer; while the total is at
\* most M (exactly M included) there is no such failure.
C2_LimitEnforced ==
  \A i \in Slots :
    (op[i] = "bufferStream" /\ maxLength[i].given /\ maxLength[i].value > 0) =>
      IF TotalLen(Delivered(i)) > maxLength[i].value
      THEN value[i] = [state |-> "rejected",
                       result |-> MaxLengthExceededError(maxLength[i].value)]
      ELSE value[i].result.kind # "MaxLengthExceededError"

\* The total was exactly M, nothing had failed, and the next chunk breached.
C2_Witness ==
  \E i \in Slots :
    /\ op[i] = "bufferStream"
    /\ maxLength[i].value > 0
    /\ TotalLen(chunks[i]) = maxLength[i].value
    /\ Len(chunks[i]) >= 1
    /\ TotalLen(Delivered(i)) > maxLength[i].value
    /\ source[i] = "ended"
    /\ value[i].result = MaxLengthExceededError(maxLength[i].value)

\* C3: when the source ends without the limit having been breached, the promise
\* is resolved with the concatenation of all delivered chunks in arrival order;
\* with no chunk it is the empty buffer.
C3_BufferExact ==
  \A i \in Slots :
    (op[i] = "bufferStream" /\ source[i] = "ended" /\ ~Breached(log[i], maxLength[i])) =>
      /\ value[i] = [state |-> "resolved", result |-> BufferResult(Joined(Delivered(i)))]
      /\ Len(value[i].result.bytes) = TotalLen(Delivered(i))
      /\ Delivered(i) = <<>> => value[i].result.bytes = <<>>

\* Chunks whose order shows in the result have been buffered under a limit.
C3_Witness ==
  \E i \in Slots :
    /\ op[i] = "bufferStream"
    /\ source[i] = "ended"
    /\ Truthy(maxLength[i])
    /\ Delivered(i) = <<<<1>>, <<0, 1>>>>
    /\ value[i].result.bytes = <<1, 0, 1>>

\* Nothing more can happen in the process: every listener that will ever run
\* has run and the write stream has no step left.
Quiescent == ~ENABLED Next

\* C4: streamToDisk has at most one chunk write outstanding (handed to the
\* write stream and not yet performed) at any moment.
C4_SerializedWrites ==
  \A i \in Slots : op[i] = "streamToDisk" => Len(stream[i].queue) <= 1

\* C5: once the source has emitted its end or error and nothing more can
\* happen, the promise of every operation is settled, whatever the destination
\* did.
C5_SettlesExactlyOnce ==
  \A i \in Slots :
    (source[i] \in {"ended", "errored"} /\ Quiescent) =>
      value[i].state \in {"resolved", "rejected"}

\* C6: when opening, writing or closing the destination file has failed, the
\* promise of streamToDisk ends up rejected: not resolved, not pending.
C6_DestinationFailureRejects ==
  \A i \in Slots :
    (op[i] = "streamToDisk" /\ stream[i].state = "errored" /\ Quiescent) =>
      value[i].state = "rejected"

\* C7 as stated: after a limit breach no data event changes the chunk list or
\* the running length of bufferStream.
C7_NoStateChangeAfterBreach ==
  [][\A i \in Slots :
       (op[i] = "bufferStream" /\ Breached(log[i], maxLength[i])) =>
         (chunks'[i] = chunks[i] /\ length'[i] = length[i])]_vars

\* C7: after a limit breach no data event changes the chunk list or the
\* outcome, so no later chunk reaches the result; the running length still
\* grows by the length of every later chunk.
C7_NoAppendAfterBreach ==
  [][\A i \in Slots :
       (op[i] = "bufferStream" /\ Breached(log[i], maxLength[i])) =>
         /\ chunks'[i] = chunks[i]
         /\ value'[i] = value[i]
         /\ length'[i] = length[i] + (TotalLen(DataOf(log'[i])) - TotalLen(DataOf(log[i])))]_vars

\* After the breach a chunk arrived that would have fitted on top of the
\* accepted chunks, and it was counted but not appended.
C7_Witness ==
  \E i \in Slots :
    /\ op[i] = "bufferStream"
    /\ Len(log[i]) >= 2
    /\ Breached(SubSeq(log[i], 1, Len(log[i]) - 1), maxLength[i])
    /\ log[i][Len(log[i])].type = "data"
    /\ Len(log[i][Len(log[i])].chunk) > 0
    /\ TotalLen(chunks[i]) + Len(log[i][Len(log[i])].chunk) <= maxLength[i].value
    /\ length[i] = TotalLen(Delivered(i))
    /\ Len(chunks[i]) < Len(Delivered(i)) - 1

\* C8: when the source has been closed from outside, without an end or error
\* event, the promise ends up rejected.
C8_CloseRejects ==
  \A i \in Slots : (source[i] = "closed" /\ Quiescent) => value[i].state = "rejected"

C10_ResolvedAfterClose ==
  \A i \in Slots :
    (op[i] = "streamToDisk" /\ value[i].state = "resolved") =>
      /\ source[i] = "ended"
      /\ stream[i].queue = <<>>
      /\ stream[i].state = "closed"

\* C10: the promise of streamToDisk is resolved only when the source has ended,
\* stream.end has been called, no write is outstanding and the stream has
\* finished; the file descriptor is closed or still closing.
C10_ResolvedAfterFinish ==
  \A i \in Slots :
    (op[i] = "streamToDisk" /\ value[i].state = "resolved") =>
      /\ source[i] = "ended"
      /\ stream[i].ending
      /\ stream[i].queue = <<>>
      /\ stream[i].finished
      /\ stream[i].state \notin {"opening", "open"}

\* The promise is resolved while the file descriptor is still closing.
C10_Witness ==
  \E i \in Slots :
    /\ op[i] = "streamToDisk"
    /\ value[i].state = "resolved"
    /\ stream[i].state = "closing"
    /\ Len(Delivered(i)) >= 2

\* The last event of a non-empty event sequence.
Last(events) == events[Len(events)]

\* bs is an initial part of cs.
IsPrefix(bs, cs) == Len(bs) <= Len(cs) /\ bs = SubSeq(cs, 1, Len(bs))

\* C11: when the source of makeChecksum, bufferStream or streamToDisk emits an
\* error before an end and (for bufferStream) before a limit breach, the
\* promise is rejected with exactly that error value and carries no digest,
\* buffer or info.
C11_SourceErrorUnchanged ==
  \A i \in Slots :
    (source[i] = "errored" /\ ~Breached(log[i], maxLength[i])) =>
      value[i] = [state |-> "rejected",
                  result |-> [kind |-> "error", bytes |-> <<>>, text |-> Last(log[i]).error,
                              num |-> 0]]

\* streamToDisk was rejected with the error its part emitted after two chunks.
C11_Witness ==
  \E i \in Slots :
    /\ op[i] = "streamToDisk"
    /\ Len(Delivered(i)) = 2
    /\ source[i] = "errored"
    /\ Last(log[i]).error = "ECONNRESET"
    /\ value[i].result.text = "ECONNRESET"

\* C12: makeChecksum with an algorithm outside the supported set throws at
\* once: no read stream is opened, no listener is attached and none ever runs,
\* and no promise is returned.
C12_UnsupportedFailsFast ==
  \A i \in Slots :
    (op[i] = "makeChecksum" /\ algorithm[i] \notin SupportedAlgorithms) =>
      /\ threw[i]
      /\ source[i] = "none"
      /\ log[i] = <<>>
      /\ hash[i] = NoHash
      /\ value[i].state = "none"

\* makeChecksum was called with the unsupported algorithm.
C12_Witness ==
  \E i \in Slots :
    /\ op[i] = "makeChecksum"
    /\ algorithm[i] = "crc-bogus"
    /\ threw[i]

\* C13: the error event of the part only rejects the promise of streamToDisk:
\* that step leaves the file system, the write stream and info unchanged, and
\* in no step after the error does the temporary file disappear or lose bytes
\* that were written.
C13_NoCleanupOnError ==
  [][\A i \in Slots :
       op[i] = "streamToDisk" =>
         /\ (source[i] = "open" /\ source'[i] = "errored") =>
              /\ files' = files
              /\ stream' = stream
              /\ info' = info
              /\ value[i].state = "pending"
              /\ value'[i].state = "rejected"
         /\ (source[i] = "errored" /\ files[info[i].path].exists) =>
              /\ files'[info[i].path].exists
              /\ IsPrefix(files[info[i].path].bytes, files'[info[i].path].bytes)]_vars

\* The part failed after a chunk had been written to the file, and the file
\* still holds it.
C13_Witness ==
  \E i \in Slots :
    /\ op[i] = "streamToDisk"
    /\ source[i] = "errored"
    /\ value[i].state = "rejected"
    /\ Delivered(i) = <<<<0, 1>>, <<1>>>>
    /\ files[info[i].path] = [exists |-> TRUE, bytes |-> <<0, 1>>]
    /\ stream[i].queue = <<<<1>>>>

\* C14 as stated: concurrent invocations of streamToDisk with the same prefix
\* write to pairwise distinct paths.
C14_DistinctPaths ==
  \A i, j \in Slots :
    (i # j /\ op[i] = "streamToDisk" /\ op[j] = "streamToDisk" /\ prefix[i] = prefix[j]) =>
      info[i].path # info[j].path

\* C14: every file in the temporary directory is the one file of an invocation;
\* concurrent invocations with the same prefix write to distinct paths exactly
\* when their random draws differ, and an invocation whose path no other
\* invocation shares has, once resolved, a file of exactly its own chunks.
C14_DistinctPathsIffDistinctDraws ==
  /\ \A p \in Paths :
       files[p].exists => \E i \in Slots : op[i] = "streamToDisk" /\ info[i].path = p
  /\ \A i, j \in Slots :
       (i # j /\ op[i] = "streamToDisk" /\ op[j] = "streamToDisk") =>
         /\ prefix[i] = prefix[j] => (info[i].path = info[j].path <=> random[i] = random[j])
         /\ (info[i].path # info[j].path /\ value[i].state = "resolved") =>
              files[info[i].path] = [exists |-> TRUE, bytes |-> Joined(Delivered(i))]

\* Two invocations drew the same suffix, wrote into one file and both resolved;
\* the file does not hold the first one's chunk.
C14_Witness ==
  \E i, j \in Slots :
    /\ i # j
    /\ op[i] = "streamToDisk" /\ op[j] = "streamToDisk"
    /\ random[i] = random[j]
    /\ info[i].path = info[j].path
    /\ value[i].state = "resolved" /\ value[j].state = "resolved"
    /\ Len(Delivered(i)) = 1
    /\ files[info[i].path].bytes # Joined(Delivered(i))

\* The digest of a byte sequence hashed in one piece.
DigestOf(name, bytes) == digest(update(createHash(name), bytes))

\* C15: the digest makeChecksum resolves with is the digest of the ordered
\* concatenation of the delivered chunks under the chosen algorithm, however
\* the content was split into chunks; an empty source gives the digest of the
\* empty input.
C15_DigestOfContent ==
  \A i \in Slots :
    (op[i] = "makeChecksum" /\ source[i] = "ended") =>
      /\ value[i] = [state |-> "resolved",
                     result |-> DigestResult(DigestOf(algorithm[i], Joined(Delivered(i))))]
      /\ Delivered(i) = <<>> => value[i].result.text = digest(createHash(algorithm[i]))

\* The content <<0, 1, 1>> arrived split into three chunks, one of them empty.
C15_Witness ==
  \E i \in Slots :
    /\ op[i] = "makeChecksum"
    /\ value[i].state = "resolved"
    /\ Delivered(i) = <<<<0>>, <<>>, <<1, 1>>>> \/ Delivered(i) = <<<<0, 1>>, <<>>, <<1>>>>
    /\ value[i].result.text = DigestOf(algorithm[i], <<0, 1, 1>>)

\* C16: with maxLength 0 or absent bufferStream never fails with
\* MaxLengthExceededError and accumulates every delivered chunk.
C16_Unbounded ==
  \A i \in Slots :
    (op[i] = "bufferStream" /\ (~maxLength[i].given \/ maxLength[i].value = 0)) =>
      /\ value[i].result.kind # "MaxLengthExceededError"
      /\ chunks[i] = Delivered(i)
      /\ source[i] = "ended" => value[i].result = BufferResult(Joined(Delivered(i)))

\* With maxLength 0 more bytes than any configured limit were buffered.
C16_Witness ==
  \E i \in Slots :
    /\ op[i] = "bufferStream"
    /\ maxLength[i] = [given |-> TRUE, value |-> 0]
    /\ TotalLen(Delivered(i)) > MaxLimit
    /\ value[i].state = "resolved"
    /\ Len(value[i].result.bytes) = TotalLen(Delivered(i))

\* The number of data events of an event sequence before its first breach.
AcceptedCount(events, m) ==
  IF Breached(events, m)
  THEN LET k == CHOOSE j \in 1..Len(events) :
                  BreachAt(events, j, m) /\ \A h \in 1..(j - 1) : ~BreachAt(events, h, m)
       IN Len(DataOf(SubSeq(events, 1, k))) - 1
  ELSE Len(DataOf(events))

\* C18: with a maximum M > 0 the chunk list of bufferStream is the delivered
\* chunks up to the first breach (a prefix of what was delivered), its total
\* length is at most M, and the running length is the total length of every
\* delivered chunk, rejected ones included.
C18_ChunksPrefixWithinLimit ==
  \A i \in Slots :
    (op[i] = "bufferStream" /\ maxLength[i].given /\ maxLength[i].value > 0) =>
      /\ IsPrefix(chunks[i], Delivered(i))
      /\ Len(chunks[i]) = AcceptedCount(log[i], maxLength[i])
      /\ TotalLen(chunks[i]) <= maxLength[i].value
      /\ length[i] = TotalLen(Delivered(i))

\* After a breach a one-byte chunk arrived that would have fitted on top of the
\* accepted chunks; it was counted and not appended.
C18_Witness ==
  \E i \in Slots :
    /\ op[i] = "bufferStream"
    /\ maxLength[i].value > 0
    /\ Len(Delivered(i)) = 3
    /\ Len(chunks[i]) = 1
    /\ Len(Delivered(i)[3]) = 1
    /\ TotalLen(chunks[i]) + 1 <= maxLength[i].value
    /\ length[i] > maxLength[i].value

\* C19 as stated: the write stream of streamToDisk exists from the invocation
\* on, and once the part has emitted an error the file has been created and the
\* stream has not been ended or closed.
C19_FileCreatedOnError ==
  \A i \in Slots :
    op[i] = "streamToDisk" =>
      /\ stream[i].state # "none"
      /\ source[i] = "errored" =>
           /\ files[info[i].path].exists
           /\ ~stream[i].ending
           /\ stream[i].state \notin {"closing", "closed"}

\* C19: the write stream of streamToDisk exists from the invocation on, before
\* any source event, and is ended only by the part's end event; once the part
\* has emitted an error the stream is never ended, finished or closed, and the
\* file exists as soon as the stream's open has completed, which may be after
\* the error, or never when the open fails.
C19_StreamOpenedNeverEndedOnError ==
  \A i \in Slots :
    op[i] = "streamToDisk" =>
      /\ stream[i].state # "none"
      /\ stream[i].ending => source[i] = "ended"
      /\ source[i] = "errored" =>
           /\ ~stream[i].ending
           /\ ~stream[i].finished
           /\ stream[i].state \in {"opening", "open", "errored"}
           /\ stream[i].state = "open" => files[info[i].path].exists
           /\ ~files[info[i].path].exists => stream[i].queue = Delivered(i)

\* The part failed at once, with no chunk; the file was created empty and the
\* stream is left open.
C19_Witness ==
  \E i \in Slots :
    /\ op[i] = "streamToDisk"
    /\ log[i] = <<ErrorEvent("EIO")>>
    /\ stream[i].state = "open"
    /\ ~stream[i].ending
    /\ files[info[i].path] = [exists |-> TRUE, bytes |-> <<>>]

\* The deferred an invocation of bufferStream has when it runs alone on an
\* event sequence.
BufferAlone(events, m) ==
  LET o == FirstEventOutcome(events, m) IN
  [state |-> o.state,
   result |-> [kind |-> o.kind,
               bytes |-> IF o.kind = "buffer" THEN Joined(DataOf(events)) ELSE <<>>,
               text |-> o.text, num |-> o.num]]

\* The deferred an invocation of makeChecksum has when it runs alone on an
\* event sequence.
ChecksumAlone(events, name) ==
  IF events = <<>> \/ Last(events).type \notin {"end", "error"} THEN Defer
  ELSE IF Last(events).type = "error"
  THEN [state |-> "rejected",
        result |-> [kind |-> "error", bytes |-> <<>>, text |-> Last(events).error, num |-> 0]]
  ELSE [state |-> "resolved", result |-> DigestResult(DigestOf(name, Joined(DataOf(events))))]

\* C17: with the events of several sources interleaved, the outcome and the
\* closure state of every invocation of bufferStream or makeChecksum are those
\* it has alone on its own source's event sequence: they depend on its own
\* parameters and events and on nothing another invocation did.
C17_Independent ==
  \A i \in Slots :
    /\ op[i] = "bufferStream" =>
         /\ value[i] = BufferAlone(log[i], maxLength[i])
         /\ length[i] = TotalLen(Delivered(i))
         /\ chunks[i] = SubSeq(Delivered(i), 1, AcceptedCount(log[i], maxLength[i]))
    /\ (op[i] = "makeChecksum" /\ ~threw[i]) =>
         /\ value[i] = ChecksumAlone(log[i], algorithm[i])
         /\ hash[i] = update(createHash(algorithm[i]), Joined(Delivered(i)))

\* Two bufferStream invocations with the same limit ran side by side: one
\* breached it, the other ended within it, though together they delivered more.
C17_Witness ==
  \E i, j \in Slots :
    /\ i # j
    /\ op[i] = "bufferStream" /\ op[j] = "bufferStream"
    /\ maxLength[i] = maxLength[j]
    /\ maxLength[i].value = 2
    /\ value[i].result.kind = "MaxLengthExceededError"
    /\ source[j] = "ended"
    /\ value[j].result = BufferResult(<<1, 1>>)
    /\ Len(Delivered(i)) = 2

====
